---- MODULE Spec2Model ----
(***************************************************************************)
(* repox (src/main.rs): a git subcommand applied to a list of              *)
(* repositories by a fixed pool of worker threads that drain a shared      *)
(* Mutex<Vec<String>> and report through a process-wide print lock.        *)
(*                                                                         *)
(* Modelling conventions                                                   *)
(*  - A repository identifier is a sequence of tokens; "/" and ".git" are  *)
(*    tokens of their own, so that the derivation of the local name        *)
(*    (trim_end_matches + rsplit) is computed and not assumed.             *)
(*  - A list entry is named by its position in the list (the list may hold *)
(*    the same identifier twice); the queue holds positions.               *)
(*  - An external git invocation is in flight between the step that starts *)
(*    it and the step that observes its return; it may also never return.  *)
(*  - Writes to the terminal are assumed not to fail.                      *)
(***************************************************************************)
EXTENDS Integers, Sequences, FiniteSets, TLC

\* ---------------------------------------------------------------- bounds

\* longest repository list read from the repox file
MaxRepos == 2

\* largest number given to -p
MaxP == 2

\* ------------------------------------------------------ program constants

\* let mut parallels = 5;  and  unwrap_or(5)
DefaultParallels == 5

\* ----------------------------------------------------------------- inputs

Cmds == {"clone", "status", "pull"}

\* the identifiers a repox file may hold
RepoIds == { <<"org", "/", "foo", ".git">>, <<"bar">> }

\* numbers that may follow -p
PValues == { ToString(n) : n \in 0..MaxP }

\* command lines (args[1..]): -p <number>, help, nothing, a command alone,
\* -p alone
ArgVectors ==
    { <<"-p", v, c, "github">> : v \in PValues, c \in Cmds }
    \cup { <<"-h">>, <<>>, <<"pull">>, <<"-p">> }

RECURSIVE SeqsUpTo(_, _)
SeqsUpTo(S, n) ==
    IF n = 0 THEN { <<>> }
    ELSE LET shorter == SeqsUpTo(S, n - 1)
         IN  shorter \cup { Append(s, x) : s \in shorter, x \in S }

RepoLists == SeqsUpTo(RepoIds, MaxRepos)

\* captured stream contents: nothing, white space only, text
Texts == { "", " ", "M f" }

\* Result<Output>: a spawn failure, or the captured stdout and stderr
Outcomes ==
    { [ok |-> FALSE, stdout |-> "", stderr |-> ""] }
    \cup { [ok |-> TRUE, stdout |-> o, stderr |-> e] : o \in Texts, e \in {"", "M f"} }

\* ---------------------------------------------------------- pure functions

\* str::parse::<usize>: the decimal strings of the numbers, nothing else
ParseUsize(s) ==
    IF \E n \in 0..(MaxP + 1) : ToString(n) = s
    THEN [ok |-> TRUE, val |-> CHOOSE n \in 0..(MaxP + 1) : ToString(n) = s]
    ELSE [ok |-> FALSE, val |-> 0]

\* str::trim on the captured texts
Trim(t) == IF t = " " THEN "" ELSE t

\* str::to_uppercase on the commands
ToUppercase(c) ==
    CASE c = "clone" -> "CLONE"
      [] c = "status" -> "STATUS"
      [] c = "pull" -> "PULL"
      [] OTHER -> c

\* str::trim_end_matches(".git"): every trailing ".git" is removed
RECURSIVE TrimEndGit(_)
TrimEndGit(s) ==
    IF s # <<>> /\ s[Len(s)] = ".git"
    THEN TrimEndGit(SubSeq(s, 1, Len(s) - 1))
    ELSE s

\* rsplit('/').next(): what follows the last "/"
RECURSIVE LastSegment(_)
LastSegment(s) ==
    IF s = <<>> THEN <<>>
    ELSE IF s[Len(s)] = "/" THEN <<>>
    ELSE Append(LastSegment(SubSeq(s, 1, Len(s) - 1)), s[Len(s)])

\* repo_name of process_repo
RepoName(repo) == LastSegment(TrimEndGit(repo))

LocalNames == { RepoName(r) : r \in RepoIds }

\* the -p/-c/-h loop of main, from args[i] on (args is 1-based here and holds
\* no program name)
RECURSIVE ParseFlags(_, _, _)
ParseFlags(args, i, parallels) ==
    IF i > Len(args) THEN [help |-> FALSE, i |-> i, parallels |-> parallels]
    ELSE IF args[i] \in {"-h", "--help"}
         THEN [help |-> TRUE, i |-> i, parallels |-> parallels]
    ELSE IF args[i] = "-p"
         THEN IF i + 1 <= Len(args)
              THEN LET p == ParseUsize(args[i + 1])
                   IN  ParseFlags(args, i + 2,
                                  IF p.ok THEN p.val ELSE DefaultParallels)
              ELSE ParseFlags(args, i + 2, parallels)
    ELSE IF args[i] = "-c"
         THEN ParseFlags(args, i + 2, parallels)
    ELSE [help |-> FALSE, i |-> i, parallels |-> parallels]

\* the rewrite at the head of process_repo; exists1 and exists2 are the two
\* evaluations of local_repo.exists()
ResolveNoRewrite(cmd, exists1, exists2) ==
    IF exists2 /\ cmd = "clone"
    THEN [cmd |-> cmd, skip |-> TRUE]
    ELSE [cmd |-> cmd, skip |-> FALSE]

ResolveNoSkip(cmd, exists1, exists2) ==
    IF ~exists1 /\ cmd # "clone"
    THEN [cmd |-> "clone", skip |-> FALSE]
    ELSE [cmd |-> cmd, skip |-> FALSE]

Resolve(cmd, exists1, exists2) ==
    IF ~exists1 /\ cmd # "clone"
    THEN [cmd |-> "clone", skip |-> FALSE]
    ELSE IF exists2 /\ cmd = "clone"
    THEN [cmd |-> cmd, skip |-> TRUE]
    ELSE [cmd |-> cmd, skip |-> FALSE]

\* Vec::pop: the last element leaves the vector
PopFront(q) == [item |-> q[1], rest |-> SubSeq(q, 2, Len(q))]

PopKeep(q) == [item |-> q[Len(q)], rest |-> q]

VecPop(q) == [item |-> q[Len(q)], rest |-> SubSeq(q, 1, Len(q) - 1)]

\* Vec::is_empty
IsEmptyButOne(q) == Len(q) <= 1

IsEmptyNever(q) == FALSE

IsEmpty(q) == q = <<>>

\* the holder of a mutex once its guard is dropped by thread w
GuardLeak(w) == w

GuardDrop(w) == 0

\* if let Ok(c) = check { if c.stdout.is_empty() { return; } }
IsCleanNever(c) == FALSE

IsCleanOrFailed(c) == ~c.ok \/ c.stdout = ""

IsClean(c) == c.ok /\ c.stdout = ""

\* where a thread goes with the Result of the reported invocation: both arms
\* of the match call print_sync
AfterInvokeUnwrap(o) == IF o.ok THEN "plock" ELSE "panicked"

AfterInvoke(o) == "plock"

\* if i + 1 > args.len() { Missing command } else if i + 2 > args.len()
\* { Missing subdirectory }, with i the index ParseFlags stopped at
MissingCommandOnly(args, i) ==
    IF i > Len(args) THEN "Missing command" ELSE ""

MissingArgs(args, i) ==
    IF i > Len(args) THEN "Missing command"
    ELSE IF i + 1 > Len(args) THEN "Missing subdirectory"
    ELSE ""

\* the exit status of a run whose run_in_parallel returned: main falls off
\* its end whatever the per-repository results were
RunExitCodeFailing(res) ==
    IF \E k \in 1..Len(res) : res[k] = "err" THEN 1 ELSE 0

RunExitCode(res) == 0

\* Mutex::lock returns once no thread holds the mutex
LockAlways(holder) == TRUE

MutexFree(holder) == holder = 0

\* ------------------------------------------------------------------ state

VARIABLES
    args,       \* the command line
    pcMain,     \* where main is
    cmd,        \* config.cmd
    parallels,  \* config.parallels
    repos,      \* the list read_repos returned
    exitCode,   \* -1 while the process runs
    errMsg,     \* the fatal error main reported, "" if none
    exists,     \* the local names present under dev_dir
    exists0,    \* history: the local names present when the process started
    queue,      \* shared_repos: positions of repos not yet popped
    qlock,      \* holder of the queue mutex, 0 if free
    plock,      \* holder of PRINT_LOCK, 0 if free
    thr,        \* the spawned threads, in spawn order (handles)
    joined,     \* handles joined so far
    popped,     \* history: the position taken by every pop, in order
    observed,   \* history: what exists() showed for each position
    calls,      \* history: the invocations started for each position
    quiet,      \* history: how the porcelain check of each position ended
    result,     \* history: how the reported invocation of each position ended
    term        \* history: the writes to the terminal, in order

vars == <<args, pcMain, cmd, parallels, repos, exitCode, errMsg, exists, exists0,
          queue, qlock, plock, thr, joined, popped, observed, calls, quiet,
          result, term>>

mainVars == <<args, pcMain, cmd, parallels, repos, exitCode, errMsg, exists0, joined>>

hist == <<popped, observed, calls, quiet, result, term>>

NoOut == [ok |-> FALSE, stdout |-> "-", stderr |-> "-"]

\* a thread at the top of its loop
\* (n counts the writes made inside the print region)
FreshThread == [pc |-> "lock", repo |-> 0, cmd |-> "", out |-> NoOut, n |-> 0]

Threads == 1..Len(thr)

Positions == 1..Len(repos)

\* local_repo.exists(): dev_dir itself exists (main created it)
PathExists(name) == name = <<>> \/ name \in exists

Init ==
    /\ args \in ArgVectors
    /\ exists \in SUBSET LocalNames
    /\ exists0 = exists
    /\ errMsg = ""
    /\ pcMain = "main"
    /\ cmd = ""
    /\ parallels = DefaultParallels
    /\ repos = <<>>
    /\ exitCode = -1
    /\ queue = <<>>
    /\ qlock = 0
    /\ plock = 0
    /\ thr = <<>>
    /\ joined = 0
    /\ popped = <<>>
    /\ observed = <<>>
    /\ calls = <<>>
    /\ quiet = <<>>
    /\ result = <<>>
    /\ term = <<>>

\* ------------------------------------------------------------------- main

Parsed == ParseFlags(args, 1, DefaultParallels)

\* the fatal errors main can meet after its arguments are complete
EnvErrors == { "No repox file found", "Failed to create dev directory",
               "Could not read repox file" }

\* -h / --help: usage() and return
MainHelp ==
    /\ pcMain = "main"
    /\ Parsed.help
    /\ pcMain' = "help"
    /\ exitCode' = 0
    /\ UNCHANGED <<args, cmd, parallels, repos, errMsg, joined, exists, exists0,
                   queue, qlock, plock, thr, hist>>

\* "ERROR: Missing command" / "ERROR: Missing subdirectory" and exit(1)
MainMissingArgs ==
    /\ pcMain = "main"
    /\ ~Parsed.help
    /\ MissingArgs(args, Parsed.i) # ""
    /\ errMsg' = MissingArgs(args, Parsed.i)
    /\ pcMain' = "fatal"
    /\ exitCode' = 1
    /\ UNCHANGED <<args, cmd, parallels, repos, joined, exists, exists0, queue,
                   qlock, plock, thr, hist>>

\* no repox file, create_dir_all failed, or read_repos failed: exit(1)
MainFatalEnv ==
    /\ pcMain = "main"
    /\ ~Parsed.help
    /\ MissingArgs(args, Parsed.i) = ""
    /\ \E e \in EnvErrors : errMsg' = e
    /\ pcMain' = "fatal"
    /\ exitCode' = 1
    /\ UNCHANGED <<args, cmd, parallels, repos, joined, exists, exists0, queue,
                   qlock, plock, thr, hist>>

\* Config is built and run_in_parallel entered: shared_repos holds the list
MainDispatch ==
    /\ pcMain = "main"
    /\ ~Parsed.help
    /\ MissingArgs(args, Parsed.i) = ""
    /\ \E list \in RepoLists :
         /\ repos' = list
         /\ queue' = [i \in 1..Len(list) |-> i]
         /\ observed' = [i \in 1..Len(list) |-> "none"]
         /\ calls' = [i \in 1..Len(list) |-> <<>>]
         /\ quiet' = [i \in 1..Len(list) |-> "none"]
         /\ result' = [i \in 1..Len(list) |-> "none"]
    /\ cmd' = args[Parsed.i]
    /\ parallels' = Parsed.parallels
    /\ pcMain' = "run"
    /\ UNCHANGED <<args, exitCode, errMsg, joined, exists, exists0, qlock, plock,
                   thr, popped, term>>

\* for _ in 0..config.parallels { thread::spawn(..); handles.push(handle) }
Spawn ==
    /\ pcMain = "run"
    /\ Len(thr) < parallels
    /\ thr' = Append(thr, FreshThread)
    /\ UNCHANGED <<mainVars, exists, queue, qlock, plock, hist>>

\* for handle in handles { let _ = handle.join(); }
Join ==
    /\ pcMain = "run"
    /\ Len(thr) = parallels
    /\ joined < parallels
    /\ thr[joined + 1].pc \in {"done", "panicked"}
    /\ joined' = joined + 1
    /\ UNCHANGED <<args, pcMain, cmd, parallels, repos, exitCode, errMsg, exists,
                   exists0, queue, qlock, plock, thr, hist>>

\* run_in_parallel returns and main ends
Return ==
    /\ pcMain = "run"
    /\ Len(thr) = parallels
    /\ joined = parallels
    /\ pcMain' = "returned"
    /\ exitCode' = RunExitCode(result)
    /\ UNCHANGED <<args, cmd, parallels, repos, errMsg, joined, exists, exists0,
                   queue, qlock, plock, thr, hist>>

\* ---------------------------------------------------------------- workers

\* let mut locked = repos.lock().unwrap();
Lock(w) ==
    /\ thr[w].pc = "lock"
    /\ MutexFree(qlock)
    /\ qlock' = w
    /\ thr' = [thr EXCEPT ![w].pc = "locked"]
    /\ UNCHANGED <<mainVars, exists, queue, plock, hist>>

\* if locked.is_empty() { break; }  with the guard dropped on the way out
Break(w) ==
    /\ thr[w].pc = "locked"
    /\ IsEmpty(queue)
    /\ thr' = [thr EXCEPT ![w].pc = "done"]
    /\ qlock' = GuardDrop(w)
    /\ UNCHANGED <<mainVars, exists, queue, plock, hist>>

\* locked.pop(), the guard dropped at the end of the block, and
\* if let Some(r) = repo { process_repo(&cfg, &r) }
Pop(w) ==
    /\ thr[w].pc = "locked"
    /\ ~IsEmpty(queue)
    /\ IF queue = <<>>
       THEN /\ thr' = [thr EXCEPT ![w].pc = "lock"]
            /\ UNCHANGED <<queue, popped>>
       ELSE LET p == VecPop(queue)
            IN  /\ queue' = p.rest
                /\ popped' = Append(popped, p.item)
                /\ thr' = [thr EXCEPT ![w].pc = "resolve", ![w].repo = p.item]
    /\ qlock' = GuardDrop(w)
    /\ UNCHANGED <<mainVars, exists, plock, observed, calls, quiet, result, term>>

\* the arguments of the first invocation of a resolved command
FirstCall(c) ==
    CASE c = "status" -> [sub |-> "status --porcelain", dir |-> "local_repo"]
      [] c = "clone" -> [sub |-> "clone", dir |-> "dev_dir"]
      [] OTHER -> [sub |-> c, dir |-> "local_repo"]

\* process_repo up to the first Command::output(): the local path is looked
\* up, the command rewritten or the repository skipped, and the first
\* invocation started.  Only one of the two exists() evaluations decides
\* (the first when cmd # "clone", the second when cmd = "clone"), so both
\* read the same file system state here.
ResolveCmd(w) ==
    /\ thr[w].pc = "resolve"
    /\ LET i == thr[w].repo
           e == PathExists(RepoName(repos[i]))
           r == Resolve(cmd, e, e)
       IN  /\ observed' = [observed EXCEPT ![i] = IF e THEN "present" ELSE "absent"]
           /\ IF r.skip
              THEN /\ thr' = [thr EXCEPT ![w] = FreshThread]
                   /\ UNCHANGED calls
              ELSE /\ thr' = [thr EXCEPT
                                ![w].pc = IF r.cmd = "status" THEN "check" ELSE "invoke",
                                ![w].cmd = r.cmd]
                   /\ calls' = [calls EXCEPT ![i] = Append(@, FirstCall(r.cmd))]
    /\ UNCHANGED <<mainVars, exists, queue, qlock, plock, popped, quiet, result, term>>

\* git status --porcelain returns: a clean tree ends process_repo, anything
\* else (a spawn failure included) starts the full git status
CheckReturn(w) ==
    /\ thr[w].pc = "check"
    /\ \E c \in Outcomes :
         LET i == thr[w].repo
         IN  /\ quiet' = [quiet EXCEPT
                             ![i] = IF ~c.ok THEN "failed"
                                    ELSE IF c.stdout = "" THEN "empty"
                                    ELSE "nonempty"]
             /\ IF IsClean(c)
                THEN /\ thr' = [thr EXCEPT ![w] = FreshThread]
                     /\ UNCHANGED calls
                ELSE /\ thr' = [thr EXCEPT ![w].pc = "invoke"]
                     /\ calls' = [calls EXCEPT
                                    ![i] = Append(@, [sub |-> "status", dir |-> "local_repo"])]
    /\ UNCHANGED <<mainVars, exists, queue, qlock, plock, popped, observed, result, term>>

\* the local names git -C dev_dir clone <repo> can create
CloneCreatesAny(repo) == LocalNames

CloneCreates(repo) == { RepoName(repo) }

\* the invocation whose result is reported returns (a clone that ran may
\* have created the local path); stdout and stderr are the trimmed texts the
\* closure prints
InvokeReturn(w) ==
    /\ thr[w].pc = "invoke"
    /\ \E o \in Outcomes :
         LET i == thr[w].repo
         IN  /\ result' = [result EXCEPT ![i] = IF o.ok THEN "ok" ELSE "err"]
             /\ thr' = [thr EXCEPT
                          ![w].pc = AfterInvoke(o),
                          ![w].out = [ok |-> o.ok,
                                      stdout |-> Trim(o.stdout),
                                      stderr |-> Trim(o.stderr)]]
             /\ IF thr[w].cmd = "clone" /\ o.ok
                THEN \E created \in BOOLEAN :
                       exists' = IF created
                                 THEN exists \cup CloneCreates(repos[i])
                                 ELSE exists
                ELSE UNCHANGED exists
    /\ UNCHANGED <<mainVars, queue, qlock, plock, popped, observed, calls, quiet, term>>

\* an invocation that never returns: Command::output() has no timeout
Hang(w) ==
    /\ thr[w].pc \in {"check", "invoke"}
    /\ thr' = [thr EXCEPT ![w].pc = "hung"]
    /\ UNCHANGED <<mainVars, exists, queue, qlock, plock, hist>>

\* what the closure given to print_sync writes for position i with result o
BlockHeaderTwice(i, o) ==
    IF o.ok
    THEN <<[repo |-> i, kind |-> "header", text |-> ToUppercase(cmd)],
           [repo |-> i, kind |-> "header", text |-> ToUppercase(cmd)]>>
    ELSE <<[repo |-> i, kind |-> "error", text |-> cmd]>>

BlockResolvedLabel(i, o) ==
    LET ran == IF calls[i][1].sub = "clone" THEN "clone" ELSE cmd
    IN  IF o.ok
        THEN <<[repo |-> i, kind |-> "header", text |-> ToUppercase(ran)]>>
        ELSE <<[repo |-> i, kind |-> "error", text |-> ran]>>

Block(i, o) ==
    IF o.ok
    THEN <<[repo |-> i, kind |-> "header", text |-> ToUppercase(cmd)]>>
         \o (IF o.stdout # ""
             THEN <<[repo |-> i, kind |-> "stdout", text |-> o.stdout]>>
             ELSE <<>>)
         \o (IF o.stderr # ""
             THEN <<[repo |-> i, kind |-> "stderr", text |-> o.stderr]>>
             ELSE <<>>)
    ELSE <<[repo |-> i, kind |-> "error", text |-> cmd]>>

\* print_sync: let _guard = lock.lock().unwrap();
PrintLock(w) ==
    /\ thr[w].pc = "plock"
    /\ MutexFree(plock)
    /\ plock' = w
    /\ thr' = [thr EXCEPT ![w].pc = "print"]
    /\ UNCHANGED <<mainVars, exists, queue, qlock, hist>>

\* one println!/eprintln! of the closure; after the last one the guard is
\* dropped and process_repo returns
PrintWrite(w) ==
    /\ thr[w].pc = "print"
    /\ LET i == thr[w].repo
           b == Block(i, thr[w].out)
           n == thr[w].n
       IN  /\ term' = Append(term, b[n + 1])
           /\ IF n + 1 = Len(b)
              THEN /\ thr' = [thr EXCEPT ![w] = FreshThread]
                   /\ plock' = GuardDrop(w)
              ELSE /\ thr' = [thr EXCEPT ![w].n = n + 1]
                   /\ UNCHANGED plock
    /\ UNCHANGED <<mainVars, exists, queue, qlock, popped, observed, calls, quiet, result>>

Worker(w) ==
    \/ Lock(w)
    \/ Break(w)
    \/ Pop(w)
    \/ ResolveCmd(w)
    \/ CheckReturn(w)
    \/ InvokeReturn(w)
    \/ PrintLock(w)
    \/ PrintWrite(w)

Next ==
    \/ MainHelp
    \/ MainMissingArgs
    \/ MainFatalEnv
    \/ MainDispatch
    \/ Spawn
    \/ Join
    \/ Return
    \/ \E w \in Threads : Worker(w)
    \/ \E w \in Threads : Hang(w)

Spec == Init /\ [][Next]_vars

\* Scheduling: main and every spawned thread keep taking steps while they can
\* (OS threads); an invocation in flight returns unless it hangs for good.
MainStep ==
    MainHelp \/ MainMissingArgs \/ MainFatalEnv \/ MainDispatch \/ Spawn \/ Join \/ Return

ThreadStep(w) == w \in Threads /\ Worker(w)

FairSpec ==
    /\ Spec
    /\ WF_vars(MainStep)
    /\ \A w \in 1..MaxP : WF_vars(ThreadStep(w))

\* ------------------------------------------------------------- vocabulary

Dispatched == pcMain \in {"run", "returned"}

\* the threads inside process_repo for position i
Holders(i) == { w \in Threads : thr[w].repo = i }

\* the writes made for position i, in order
TermOf(i) == SelectSeq(term, LAMBDA e : e.repo = i)

PoppedSet == { popped[k] : k \in 1..Len(popped) }

QueueSet == { queue[k] : k \in 1..Len(queue) }

AllSpawned == Len(thr) = parallels

AllDone == AllSpawned /\ \A w \in Threads : thr[w].pc = "done"

Hung == { w \in Threads : thr[w].pc = "hung" }

\* position i has been popped and process_repo has returned for it
Finished(i) == i \in PoppedSet /\ Holders(i) = {}

\* ----------------------------------------------------------------- claims

\* C1: every list entry is popped exactly once and by one worker: the pops
\* hold no position twice, the queue and the pops together are exactly the
\* list, at most one thread is inside process_repo for a position and it is
\* a popped one, and once all of P >= 1 workers have ended there have been
\* exactly R pops (R process_repo cycles).
C1_PoppedExactlyOnce ==
    Dispatched =>
        /\ \A j, k \in 1..Len(popped) : j # k => popped[j] # popped[k]
        /\ PoppedSet \cup QueueSet = Positions
        /\ PoppedSet \cap QueueSet = {}
        /\ Len(queue) + Len(popped) = Len(repos)
        /\ \A i \in Positions : Cardinality(Holders(i)) <= 1
        /\ \A w \in Threads : thr[w].repo # 0 => thr[w].repo \in PoppedSet
        /\ (AllDone /\ parallels >= 1) => Len(popped) = Len(repos)

C1_Witness ==
    /\ AllDone
    /\ parallels = 2
    /\ Len(repos) = 2
    /\ Len(popped) = 2

\* C2: under fair scheduling, with P >= 1, unless some invocation never
\* returns, every worker eventually sees the queue empty and ends, and every
\* entry of the list has been processed by then.
C2_EveryWorkerTerminates ==
    (pcMain = "run" /\ parallels >= 1)
        ~> (Hung # {} \/ (AllDone /\ queue = <<>> /\ PoppedSet = Positions))

C2_Witness ==
    /\ AllDone
    /\ parallels = 2
    /\ Len(repos) = 2
    /\ queue = <<>>
    /\ Hung = {}
    /\ \E i \in Positions : TermOf(i) # <<>>

\* C3: when run_in_parallel has returned, all P workers have ended and the
\* work queue is empty.
C3_ReturnsDrained ==
    pcMain = "returned" =>
        /\ AllSpawned
        /\ \A w \in Threads : thr[w].pc \in {"done", "panicked"}
        /\ queue = <<>>

\* C4: at most one thread is inside the print region, it is the holder of
\* the print lock, and the writes made for one repository are consecutive
\* on the terminal.
C4_BlocksUninterrupted ==
    /\ Cardinality({ w \in Threads : thr[w].pc = "print" }) <= 1
    /\ \A w \in Threads : thr[w].pc = "print" => plock = w
    /\ \A j, k \in 1..Len(term) :
         (j < k /\ term[j].repo = term[k].repo)
            => \A m \in j..k : term[m].repo = term[j].repo

C4_Witness ==
    \E w, v \in Threads :
        /\ thr[w].pc = "print"
        /\ Len(TermOf(thr[w].repo)) = 2
        /\ thr[v].pc = "plock"

\* C5: with P >= 2, once the invocation of one worker hangs, fair scheduling
\* still leads to the queue empty and every other worker ended, unless a
\* second invocation hangs as well.
C5_HungWorkerBlocksOnlyItself ==
    (pcMain = "run" /\ parallels >= 2 /\ Cardinality(Hung) = 1)
        ~> \/ Cardinality(Hung) >= 2
           \/ /\ queue = <<>>
              /\ AllSpawned
              /\ \A w \in Threads \ Hung : thr[w].pc = "done"
              /\ \A i \in Positions : Finished(i) \/ Holders(i) \subseteq Hung

C5_Witness ==
    /\ Cardinality(Hung) = 1
    /\ parallels = 2
    /\ Len(repos) = 2
    /\ queue = <<>>
    /\ \A w \in Threads \ Hung : thr[w].pc = "done"
    /\ \E i \in Positions : Finished(i) /\ TermOf(i) # <<>>

\* C6 (as amended): a spawn failure ends no worker: no thread is ever ended
\* by a panic; when the invocation whose result is reported (the clone, the
\* passed-through command, the full status) failed to spawn, the repository
\* gets its error line written under the print lock, and nothing else; when
\* only the porcelain check failed to spawn, nothing is written for that
\* failure and the worker goes on to the full status; and once
\* run_in_parallel has returned with P >= 1 the queue is empty, failures or
\* not.
C6_SpawnFailureIsIsolated ==
    /\ \A w \in Threads : thr[w].pc # "panicked"
    /\ \A i \in Positions :
         result[i] = "err" =>
            \/ /\ Holders(i) # {}
               /\ \A w \in Holders(i) :
                    /\ thr[w].pc \in {"plock", "print"}
                    /\ thr[w].pc = "print" => plock = w
               /\ TermOf(i) = <<>>
            \/ /\ Holders(i) = {}
               /\ TermOf(i) = <<[repo |-> i, kind |-> "error", text |-> cmd]>>
    /\ \A i \in Positions :
         quiet[i] = "failed" =>
            /\ Len(calls[i]) = 2
            /\ calls[i][2] = [sub |-> "status", dir |-> "local_repo"]
            /\ (Finished(i) /\ result[i] = "ok") =>
                   \A k \in 1..Len(TermOf(i)) : TermOf(i)[k].kind # "error"
    /\ (pcMain = "returned" /\ parallels >= 1) => queue = <<>>

\* C6 (as stated): every repository for which some invocation failed to
\* spawn has its error line on the terminal once process_repo has returned.
C6_EverySpawnFailureReported ==
    \A i \in Positions :
        ((result[i] = "err" \/ quiet[i] = "failed") /\ Finished(i))
            => \E k \in 1..Len(TermOf(i)) : TermOf(i)[k].kind = "error"

C6_Witness ==
    /\ pcMain = "returned"
    /\ parallels = 1
    /\ Len(repos) = 2
    /\ result[2] = "err"
    /\ Finished(1)
    /\ TermOf(1) # <<>>

\* C7: for a requested command other than "clone", a repository whose local
\* path was absent when the worker looked is not skipped, and the one
\* invocation made for it is "clone" run in the dev directory.
C7_AbsentPathIsCloned ==
    \A i \in Positions :
        (cmd # "clone" /\ observed[i] = "absent")
            => calls[i] = <<[sub |-> "clone", dir |-> "dev_dir"]>>

C7_Witness ==
    \E i \in Positions :
        /\ cmd = "status"
        /\ observed[i] = "absent"
        /\ Finished(i)
        /\ calls[i] # <<>>

\* C8: when the requested command is "clone" and the local path was present
\* when the worker looked, nothing is invoked for the repository, no thread
\* goes on to the print region with it and nothing is written for it.
C8_PresentPathIsSkipped ==
    \A i \in Positions :
        (cmd = "clone" /\ observed[i] = "present")
            => /\ calls[i] = <<>>
               /\ result[i] = "none"
               /\ Holders(i) = {}
               /\ TermOf(i) = <<>>

C8_Witness ==
    /\ cmd = "clone"
    /\ pcMain = "returned"
    /\ \E i \in Positions : observed[i] = "present"
    /\ \E i \in Positions : observed[i] = "absent" /\ TermOf(i) # <<>>

\* C9: for "status" on a present local path, a porcelain check that ran with
\* empty stdout is the only invocation and nothing is written; one that ran
\* with non-empty stdout is followed by the full status against the local
\* path, and when process_repo has returned the result of that invocation
\* has been written: the header block if it ran, the error line if not.
C9_QuietStatusDecides ==
    \A i \in Positions :
        (cmd = "status" /\ observed[i] = "present") =>
            /\ quiet[i] = "empty" =>
                 /\ calls[i] = <<[sub |-> "status --porcelain", dir |-> "local_repo"]>>
                 /\ Holders(i) = {}
                 /\ TermOf(i) = <<>>
            /\ quiet[i] = "nonempty" =>
                 /\ calls[i] = <<[sub |-> "status --porcelain", dir |-> "local_repo"],
                                 [sub |-> "status", dir |-> "local_repo"]>>
                 /\ (Finished(i) /\ result[i] = "ok") =>
                        /\ TermOf(i) # <<>>
                        /\ TermOf(i)[1].kind = "header"
                 /\ (Finished(i) /\ result[i] = "err") =>
                        TermOf(i) = <<[repo |-> i, kind |-> "error", text |-> cmd]>>
                 /\ Finished(i) => result[i] # "none"

C9_Witness ==
    /\ cmd = "status"
    /\ Len(repos) = 2
    /\ observed[1] = "present" /\ quiet[1] = "empty" /\ Finished(1)
    /\ observed[2] = "present" /\ quiet[2] = "nonempty" /\ Finished(2)
    /\ Len(TermOf(2)) >= 2

\* C10: with one worker the entries are processed in the reverse of the
\* list order: the k-th pop takes the k-th entry from the end, one at a
\* time, and when the worker has ended all of them have been taken.
C10_SingleWorkerLifo ==
    (Dispatched /\ parallels = 1) =>
        /\ \A k \in 1..Len(popped) : popped[k] = Len(repos) - k + 1
        /\ Cardinality({ w \in Threads : thr[w].repo # 0 }) <= 1
        /\ AllDone => Len(popped) = Len(repos)

C10_Witness ==
    /\ parallels = 1
    /\ AllDone
    /\ Len(repos) = 2
    /\ repos[1] # repos[2]
    /\ popped = <<2, 1>>

\* the kinds of the writes made for position i, in order
KindsOf(i) == [k \in 1..Len(TermOf(i)) |-> TermOf(i)[k].kind]

OkBlocks == { <<"header">>, <<"header", "stdout">>, <<"header", "stderr">>,
              <<"header", "stdout", "stderr">> }

\* C11: a repository whose reported invocation has returned gets exactly one
\* block: nothing is written for it before that return, while it is being
\* written its worker is still inside process_repo (so has not gone back to
\* the queue), and once process_repo has returned the block is a header with
\* the non-empty streams or, on spawn failure, one error line; a repository
\* with no such return (skipped, clean status, hung) has nothing written.
C11_OneBlockPerInvocation ==
    \A i \in Positions :
        /\ result[i] = "none" => TermOf(i) = <<>>
        /\ (result[i] # "none" /\ ~Finished(i)) =>
              \A w \in Holders(i) :
                  /\ thr[w].pc \in {"plock", "print"}
                  /\ Len(TermOf(i)) = thr[w].n
                  /\ thr[w].pc = "plock" => TermOf(i) = <<>>
        /\ (result[i] = "ok" /\ Finished(i)) => KindsOf(i) \in OkBlocks
        /\ (result[i] = "err" /\ Finished(i)) => KindsOf(i) = <<"error">>

C11_Witness ==
    /\ cmd = "status"
    /\ Len(repos) = 2
    /\ Finished(1) /\ quiet[1] = "empty" /\ TermOf(1) = <<>>
    /\ Finished(2) /\ KindsOf(2) = <<"header", "stdout", "stderr">>

\* C12: a run that ended on a fatal error has exit code 1 and a message, no
\* thread was spawned, nothing was popped, invoked or written; and a run
\* that entered run_in_parallel met no fatal error: its command line held a
\* command and a subdirectory.
C12_FatalBeforeDispatch ==
    /\ pcMain = "fatal" =>
          /\ exitCode = 1
          /\ errMsg # ""
          /\ thr = <<>> /\ queue = <<>> /\ popped = <<>> /\ term = <<>>
          /\ repos = <<>> /\ calls = <<>>
    /\ errMsg # "" => pcMain = "fatal"
    /\ Dispatched =>
          /\ errMsg = ""
          /\ Parsed.i + 1 <= Len(args)
    /\ (pcMain # "main" /\ ~Parsed.help /\ Parsed.i > Len(args))
          => errMsg = "Missing command"
    /\ (pcMain # "main" /\ ~Parsed.help /\ Parsed.i = Len(args))
          => errMsg = "Missing subdirectory"

C12_Witness ==
    /\ pcMain = "fatal"
    /\ errMsg = "Missing subdirectory"
    /\ exitCode = 1

\* C13: from the moment the pool is started the exit code is never 1, and a
\* run whose run_in_parallel returned has exit code 0, spawn failures and
\* error-stream output included.
C13_ExitZeroAfterDispatch ==
    /\ Dispatched => exitCode \in {-1, 0}
    /\ pcMain = "returned" => exitCode = 0

C13_Witness ==
    /\ pcMain = "returned"
    /\ exitCode = 0
    /\ Len(repos) = 2
    /\ result[1] = "err"
    /\ \E k \in 1..Len(term) : term[k].kind = "stderr"

\* C14: a worker that saw the queue empty has ended holding no repository,
\* no result and no lock, and the step by which it ends changes nothing but
\* its own position and the queue lock; there are never more pops than list
\* entries, and with an empty list nothing is popped, invoked or written.
C14_EmptyQueueNoSideEffects ==
    /\ \A w \in Threads :
          thr[w].pc = "done" =>
              /\ thr[w].repo = 0
              /\ thr[w].out = NoOut
              /\ qlock # w
              /\ plock # w
    /\ Len(popped) <= Len(repos)
    /\ (Dispatched /\ repos = <<>>) =>
          /\ popped = <<>>
          /\ term = <<>>
          /\ \A w \in Threads : thr[w].pc \in {"lock", "locked", "done"}

C14_Witness ==
    /\ pcMain = "returned"
    /\ parallels = 2
    /\ Len(repos) = 1
    /\ Len(popped) = 1
    /\ term # <<>>

\* C15: a thread whose invocation is in flight (or hung) holds neither
\* mutex; the queue mutex is held only between lock and the end of the
\* test-and-pop block, the print mutex only while the block is written.
C15_NoLockAcrossInvocation ==
    /\ \A w \in Threads :
          /\ thr[w].pc \in {"resolve", "check", "invoke", "hung"}
                => (qlock # w /\ plock # w)
          /\ (qlock = w) <=> (thr[w].pc = "locked")
          /\ (plock = w) <=> (thr[w].pc = "print")
    /\ qlock \in {0} \cup Threads
    /\ plock \in {0} \cup Threads

C15_Witness ==
    \E u, v \in Threads :
        /\ thr[u].pc = "invoke"
        /\ thr[v].pc = "locked"
        /\ qlock = v

\* the command process_repo resolved for position i, "" before the look-up
\* and for a skipped repository
ResolvedOf(i) ==
    IF observed[i] = "none" THEN ""
    ELSE IF cmd = "clone" THEN (IF observed[i] = "present" THEN "" ELSE "clone")
    ELSE IF observed[i] = "absent" THEN "clone"
    ELSE cmd

\* C16 (as amended): a skipped repository has no invocation; a repository
\* resolved to anything but "status" has exactly one; one resolved to
\* "status" has the porcelain check and, unless that check ran with empty
\* stdout, the full status after it, once the check has returned; no
\* invocation is made twice, and none is made after the reported
\* invocation has returned.
C16_InvocationCount ==
    \A i \in Positions :
        LET n == Len(calls[i])
        IN  /\ ResolvedOf(i) = "" => n = 0
            /\ ResolvedOf(i) \notin {"", "status"} =>
                  /\ n = 1
                  /\ quiet[i] = "none"
            /\ ResolvedOf(i) = "status" =>
                  /\ n \in {1, 2}
                  /\ (n = 2) <=> (quiet[i] \in {"nonempty", "failed"})
                  /\ calls[i][1].sub = "status --porcelain"
            /\ \A j, k \in 1..n : j # k => calls[i][j] # calls[i][k]
            /\ result[i] # "none" =>
                  n = (IF ResolvedOf(i) = "status" THEN 2 ELSE 1)

C16_Witness ==
    \E i \in Positions :
        /\ ResolvedOf(i) = "status"
        /\ quiet[i] = "failed"
        /\ Len(calls[i]) = 2
        /\ result[i] = "err"
        /\ Finished(i)

\* C16 (as stated): the counts above, and nothing is invoked for a
\* repository after one of its invocations failed to spawn.
C16_NoInvocationAfterFailure ==
    \A i \in Positions :
        /\ ResolvedOf(i) = "" => Len(calls[i]) = 0
        /\ ResolvedOf(i) \notin {"", "status"} => Len(calls[i]) = 1
        /\ ResolvedOf(i) = "status" => Len(calls[i]) \in {1, 2}
        /\ quiet[i] = "failed" => Len(calls[i]) = 1

\* C17: the concurrency level of every Config main builds is at least 1.
C17_ParallelsPositive ==
    Dispatched => parallels >= 1

\* C18: a porcelain check that failed to spawn does not end process_repo:
\* the full status is invoked against the local path, and once process_repo
\* has returned its result has been written, a header block if it ran, the
\* error line if it failed to spawn too.
C18_FailedCheckStillReports ==
    \A i \in Positions :
        quiet[i] = "failed" =>
            /\ calls[i] = <<[sub |-> "status --porcelain", dir |-> "local_repo"],
                            [sub |-> "status", dir |-> "local_repo"]>>
            /\ Holders(i) = {} => result[i] # "none"
            /\ (Finished(i) /\ result[i] = "ok") => KindsOf(i) \in OkBlocks
            /\ (Finished(i) /\ result[i] = "err") => KindsOf(i) = <<"error">>

C18_Witness ==
    /\ Len(repos) = 2
    /\ quiet[1] = "failed" /\ Finished(1) /\ result[1] = "err"
    /\ KindsOf(1) = <<"error">>
    /\ quiet[2] = "failed" /\ Finished(2) /\ result[2] = "ok"
    /\ Len(TermOf(2)) = 2

\* C19: every header carries the requested command in upper case and every
\* error line the requested command, also for a repository whose command
\* was rewritten to "clone".
C19_LabelIsRequestedCommand ==
    \A k \in 1..Len(term) :
        /\ term[k].kind = "header" => term[k].text = ToUppercase(cmd)
        /\ term[k].kind = "error" => term[k].text = cmd
        /\ term[k].kind \in {"header", "error"} => term[k].text \notin {"CLONE", "clone"} \/ cmd = "clone"

C19_Witness ==
    /\ cmd = "pull"
    /\ Len(repos) = 2
    /\ calls[1] = <<[sub |-> "clone", dir |-> "dev_dir"]>>
    /\ calls[2] = <<[sub |-> "clone", dir |-> "dev_dir"]>>
    /\ Finished(1) /\ TermOf(1)[1] = [repo |-> 1, kind |-> "header", text |-> "PULL"]
    /\ Finished(2) /\ TermOf(2) = <<[repo |-> 2, kind |-> "error", text |-> "pull"]>>

DistinctNames ==
    \A i, j \in Positions : i # j => RepoName(repos[i]) # RepoName(repos[j])

\* whether the local path of position i was there when the process started
Present0(i) == RepoName(repos[i]) = <<>> \/ RepoName(repos[i]) \in exists0

\* what the initial file system alone makes of position i
Expected(i) ==
    IF cmd = "clone" THEN (IF Present0(i) THEN "skip" ELSE "clone")
    ELSE IF Present0(i) THEN cmd
    ELSE "clone"

\* what is on the terminal for position i follows from its results alone
TermFollowsResult(i) ==
    /\ result[i] = "none" => TermOf(i) = <<>>
    /\ result[i] = "err" => TermOf(i) = <<[repo |-> i, kind |-> "error", text |-> cmd]>>
    /\ result[i] = "ok" =>
          /\ KindsOf(i) \in OkBlocks
          /\ TermOf(i)[1].text = ToUppercase(cmd)

\* C20: when the local names of the list are pairwise distinct, what is done
\* with each entry is a function of the command and of the initial file
\* system, whatever the interleaving and the number of workers: the look-up
\* shows the initial presence, the resolved command (or skip) is the one the
\* initial presence gives, the block of a finished entry follows from the
\* result of its invocation, and a run with P >= 1 that returned has looked
\* at every entry.
C20_ResolutionIsScheduleIndependent ==
    (Dispatched /\ DistinctNames) =>
        /\ \A i \in Positions :
              /\ observed[i] # "none" =>
                    /\ (observed[i] = "present") <=> Present0(i)
                    /\ ResolvedOf(i) = (IF Expected(i) = "skip" THEN "" ELSE Expected(i))
                    /\ Expected(i) = "skip" => calls[i] = <<>>
                    /\ Expected(i) = "clone" => calls[i] = <<[sub |-> "clone", dir |-> "dev_dir"]>>
                    /\ Expected(i) \notin {"skip", "clone"} =>
                          (calls[i] # <<>> /\ calls[i][1].dir = "local_repo")
              /\ Finished(i) => TermFollowsResult(i)
        /\ (pcMain = "returned" /\ parallels >= 1) =>
              \A i \in Positions : observed[i] # "none"

C20_Witness ==
    /\ DistinctNames
    /\ pcMain = "returned"
    /\ parallels = 2
    /\ Len(repos) = 2
    /\ cmd = "pull"
    /\ exists0 = { <<"bar">> }
    /\ exists = { <<"bar">>, <<"foo">> }
    /\ \A i \in Positions : TermOf(i) # <<>>

====
